---- MODULE Spec2Model ----
(***************************************************************************)
(* The newsletter REST API (server/app.py) and its seed script             *)
(* (server/seed.py) as state machines over the newsletters table.          *)
(*                                                                         *)
(*   Spec      the five request handlers, one request at a time            *)
(*   RaceSpec  two PATCH requests on one id, interleaved step by step      *)
(*   SeedSpec  one run of the seed script from an arbitrary table          *)
(*                                                                         *)
(* A row is a record [uid, id, title, body, published_at].  uid is not a   *)
(* column: it numbers the INSERTs, so that a row can be followed through   *)
(* an UPDATE of its primary key and told apart from a later row that       *)
(* reuses its id.                                                          *)
(***************************************************************************)
EXTENDS Integers, Sequences, FiniteSets, TLC

VARIABLES table, now, nextUid, resp, created, reqs, commits, seed, before

vars == <<table, now, nextUid, resp, created, reqs, commits, seed, before>>

(* ------------------------------ bounds ------------------------------- *)

\* ids run over 1..MaxId; a POST that would be given a larger id is not taken
MaxId == 2
\* the server clock runs over 0..MaxTime
MaxTime == 1
\* at most MaxUid rows are ever inserted in one behaviour of Spec
MaxUid == 3
\* the tables SeedSpec starts from hold at most MaxPrior rows
MaxPrior == 2

Titles == {"T1", "T2"}
Bodies == {"B1", "B2"}
Ids == 1..MaxId
IdStrings == {ToString(i) : i \in Ids}
Stamps == {"2001-01-01"}

(* ------------------------- the Newsletter model ---------------------- *)

\* the columns of a row, as the model class declares them
Newsletter(uid, id, title, body, published_at) ==
    [uid |-> uid, id |-> id, title |-> title, body |-> body,
     published_at |-> published_at]

\* the integer the database stores for a form value assigned to id
ParseInt(s) == CHOOSE i \in 0..(MaxId + 1) : ToString(i) = s

\* the id the database gives an inserted row: an integer primary key without
\* AUTOINCREMENT is one more than the largest id in the table
NextId(t) ==
    IF t = {} THEN 1
    ELSE (CHOOSE m \in {r.id : r \in t} : \A r \in t : r.id <= m) + 1

\* Newsletter.query.all(): the rows in primary-key order
RECURSIVE query_all(_)
query_all(t) ==
    IF t = {} THEN <<>>
    ELSE LET r == CHOOSE x \in t : \A y \in t : x.id <= y.id
         IN  <<r>> \o query_all(t \ {r})

\* Newsletter.query.filter_by(id=id): .first() of it is None iff it is empty
filter_by(t, id) == {r \in t : r.id = id}

first(q) == CHOOSE r \in q : TRUE

(* -------------------------- NewsletterSchema ------------------------- *)

\* ma.URLFor("newsletterbyid", values=dict(id="<id>")) under the route
\* '/newsletters/<int:id>'
SelfUrl(id) == "/newsletters/" \o ToString(id)

CollectionUrl == "/newsletters"

\* newsletter_schema.dump(row): title, published_at and the two hyperlinks;
\* neither id nor body is a field of the schema
newsletter_schema_dump(r) ==
    [title |-> r.title, published_at |-> r.published_at,
     url |-> [self |-> SelfUrl(r.id), collection |-> CollectionUrl]]

\* newsletters_schema.dump(rows): the dump of each, in order
newsletters_schema_dump(rows) ==
    [i \in 1..Len(rows) |-> newsletter_schema_dump(rows[i])]

(* ------------------------------ requests ----------------------------- *)

\* the strings a request sends for a field
ValuesOf(a) ==
    CASE a = "title" -> Titles
      [] a = "body" -> Bodies
      [] a = "id" -> IdStrings
      [] a = "published_at" -> Stamps

\* request.form: a map from the field names the request carries to strings
FormsOver(attrs) ==
    UNION {{f \in [D -> UNION {ValuesOf(a) : a \in D}] :
               \A a \in D : f[a] \in ValuesOf(a)} : D \in SUBSET attrs}

PostForms == FormsOver({"title", "body", "id", "published_at"})

\* the PATCH bodies of the model name attributes among title, body and id
PatchForms == FormsOver({"title", "body", "id"})

\* an uncaught exception: the framework's generic error response
ServerError == [message |-> "Internal Server Error"]

\* request.form[key] on a missing key: werkzeug's BadRequestKeyError
BadRequest == [message |-> "Bad Request"]

Outcome(t, status, body) == [table |-> t, status |-> status, body |-> body]

(* ------------------------------ handlers ----------------------------- *)

\* Index.get
Index_get == [index |-> "Welcome to the Newsletter RESTful API"]

\* a variant of Newsletters.get that returns one page of one row
Newsletters_get_Paged(t) ==
    Outcome(t, 200, newsletters_schema_dump(
                        IF t = {} THEN <<>> ELSE <<query_all(t)[1]>>))

\* Newsletters.get
Newsletters_get(t) ==
    Outcome(t, 200, newsletters_schema_dump(query_all(t)))

\* a variant of Newsletters.post that reads body with a default
\* (request.form.get('body', '')) instead of raising when it is missing
Newsletters_post_Defaults(t, form, uid, clock) ==
    IF "title" \notin DOMAIN form
    THEN Outcome(t, 400, BadRequest)
    ELSE LET body == IF "body" \in DOMAIN form THEN form["body"] ELSE ""
             new_newsletter == Newsletter(uid, NextId(t), form["title"], body, clock)
         IN  Outcome(t \cup {new_newsletter}, 201,
                     newsletter_schema_dump(new_newsletter))

\* a variant of Newsletters.post that builds the row from every field of the
\* form (Newsletter(**request.form)), so that a submitted id is used
Newsletters_post_AllFields(t, form, uid, clock) ==
    IF ~({"title", "body"} \subseteq DOMAIN form)
    THEN Outcome(t, 400, BadRequest)
    ELSE LET id == IF "id" \in DOMAIN form THEN ParseInt(form["id"]) ELSE NextId(t)
             new_newsletter == Newsletter(uid, id, form["title"], form["body"], clock)
         IN  Outcome(t \cup {new_newsletter}, 201,
                     newsletter_schema_dump(new_newsletter))

\* Newsletters.post: request.form['title'] and request.form['body'] raise on
\* a missing key before anything is added to the session; otherwise one row
\* is inserted with the id and published_at the database gives it, and the
\* response is the dump of the row as stored
Newsletters_post(t, form, uid, clock) ==
    IF ~({"title", "body"} \subseteq DOMAIN form)
    THEN Outcome(t, 400, BadRequest)
    ELSE LET new_newsletter ==
                 Newsletter(uid, NextId(t), form["title"], form["body"], clock)
         IN  Outcome(t \cup {new_newsletter}, 201,
                     newsletter_schema_dump(new_newsletter))

\* a variant of NewsletterByID.get whose query drops the filter
\* (Newsletter.query.first())
NewsletterByID_get_First(t, id) ==
    IF t = {} THEN Outcome(t, 500, ServerError)
    ELSE Outcome(t, 200, newsletter_schema_dump(query_all(t)[1]))

\* NewsletterByID.get: the schema's self link reads obj.id, which raises on
\* None
NewsletterByID_get(t, id) ==
    LET q == filter_by(t, id)
    IN  IF q = {} THEN Outcome(t, 500, ServerError)
        ELSE Outcome(t, 200, newsletter_schema_dump(first(q)))

\* a variant of the setattr loop that treats the form as the whole row: the
\* text columns it does not name are blanked
SetAttrs_Put(newsletter, form) ==
    [a \in DOMAIN newsletter |->
        IF a \in DOMAIN form
        THEN (IF a = "id" THEN ParseInt(form[a]) ELSE form[a])
        ELSE IF a \in {"title", "body"} THEN "" ELSE newsletter[a]]

\* for attr in request.form: setattr(newsletter, attr, request.form[attr])
SetAttrs(newsletter, form) ==
    [a \in DOMAIN newsletter |->
        IF a \in DOMAIN form
        THEN (IF a = "id" THEN ParseInt(form[a]) ELSE form[a])
        ELSE newsletter[a]]

\* the columns db.session.commit() writes: those whose value differs from
\* the value the instance was loaded with, and id whenever it was assigned
\* (the string assigned never equals the loaded integer)
Dirty(loaded, current, form) ==
    {a \in DOMAIN current : current[a] # loaded[a]} \cup ({"id"} \cap DOMAIN form)

\* a variant of the commit that writes every assigned column, changed or not
Commit_AllAssigned(t, loaded, current, form) ==
    LET d == DOMAIN form \cap DOMAIN current
        q == filter_by(t, loaded.id)
    IN  IF d = {} THEN [ok |-> TRUE, table |-> t]
        ELSE IF q = {} THEN [ok |-> FALSE, table |-> t]
        ELSE IF \E r \in t \ q : r.id = current.id THEN [ok |-> FALSE, table |-> t]
        ELSE LET row == first(q)
                 upd == [a \in DOMAIN row |-> IF a \in d THEN current[a] ELSE row[a]]
             IN  [ok |-> TRUE, table |-> (t \ q) \cup {upd}]

\* db.session.add(newsletter); db.session.commit() of an instance loaded as
\* `loaded` and now `current`: nothing to write is a success; else
\* UPDATE ... WHERE id = loaded.id, which fails when no row has that id any
\* more (StaleDataError) or when the new id is another row's
\* (IntegrityError), and otherwise sets the dirty columns of the row that is
\* in the table now
Commit(t, loaded, current, form) ==
    LET d == Dirty(loaded, current, form)
        q == filter_by(t, loaded.id)
    IN  IF d = {} THEN [ok |-> TRUE, table |-> t]
        ELSE IF q = {} THEN [ok |-> FALSE, table |-> t]
        ELSE IF \E r \in t \ q : r.id = current.id THEN [ok |-> FALSE, table |-> t]
        ELSE LET row == first(q)
                 upd == [a \in DOMAIN row |-> IF a \in d THEN current[a] ELSE row[a]]
             IN  [ok |-> TRUE, table |-> (t \ q) \cup {upd}]

\* newsletter_schema.dump(newsletter) after the commit: the commit expired
\* the instance, so the dump reads its row again by its identity and raises
\* when the row is not there
DumpCommitted(t, id) ==
    LET q == filter_by(t, id)
    IN  IF q = {} THEN Outcome(t, 500, ServerError)
        ELSE Outcome(t, 200, newsletter_schema_dump(first(q)))

\* NewsletterByID.patch: setattr on None (or session.add(None) for an empty
\* form) raises; otherwise assign, commit, dump
NewsletterByID_patch(t, id, form) ==
    LET q == filter_by(t, id)
    IN  IF q = {} THEN Outcome(t, 500, ServerError)
        ELSE LET newsletter == SetAttrs(first(q), form)
                 c == Commit(t, first(q), newsletter, form)
             IN  IF ~c.ok THEN Outcome(t, 500, ServerError)
                 ELSE DumpCommitted(c.table, newsletter.id)

Deleted == [message |-> "record successfully deleted"]

\* a variant of NewsletterByID.delete that deletes only a record it found
\* (if record: ...) and answers the same either way
NewsletterByID_delete_IfRecord(t, id) ==
    Outcome(t \ filter_by(t, id), 200, Deleted)

\* a variant of NewsletterByID.delete that never commits the delete
NewsletterByID_delete_NoCommit(t, id) ==
    LET q == filter_by(t, id)
    IN  IF q = {} THEN Outcome(t, 500, ServerError)
        ELSE Outcome(t, 200, Deleted)

\* NewsletterByID.delete: db.session.delete(None) raises UnmappedInstanceError
NewsletterByID_delete(t, id) ==
    LET q == filter_by(t, id)
    IN  IF q = {} THEN Outcome(t, 500, ServerError)
        ELSE Outcome(t \ {first(q)}, 200, Deleted)

(* --------------------- Spec: one request at a time ------------------- *)

Response(op, id, form, out) ==
    [op |-> op, id |-> id, form |-> form, status |-> out.status, body |-> out.body]

NoForm == [a \in {} |-> ""]

\* no response is pending: the server waits for a request
Idle == [op |-> "NONE", id |-> 0, form |-> NoForm, status |-> 0, body |-> <<>>]

SeedIdle == [pc |-> "off", rng |-> 0, newsletters |-> <<>>, deleted |-> FALSE]

NoRace == UNCHANGED <<reqs, commits>>

NoSeed == UNCHANGED <<seed, before>>

Init ==
    /\ table = {}
    /\ now = 0
    /\ nextUid = 1
    /\ resp = Idle
    /\ created = {}
    /\ reqs = <<>>
    /\ commits = <<>>
    /\ seed = SeedIdle
    /\ before = {}

\* the server clock advances
Tick ==
    /\ now < MaxTime
    /\ now' = now + 1
    /\ UNCHANGED <<table, nextUid, resp, created>>
    /\ NoRace /\ NoSeed

\* return response: the response is sent and the server takes the next request
Reply ==
    /\ resp # Idle
    /\ resp' = Idle
    /\ UNCHANGED <<table, now, nextUid, created>>
    /\ NoRace /\ NoSeed

GetIndex ==
    /\ resp = Idle
    /\ resp' = Response("GET /", 0, NoForm, Outcome(table, 200, Index_get))
    /\ UNCHANGED <<table, now, nextUid, created>>
    /\ NoRace /\ NoSeed

GetNewsletters ==
    /\ resp = Idle
    /\ resp' = Response("GET /newsletters", 0, NoForm, Newsletters_get(table))
    /\ table' = Newsletters_get(table).table
    /\ UNCHANGED <<now, nextUid, created>>
    /\ NoRace /\ NoSeed

\* what a client keeps of a create: the link of the created row, the title
\* it submitted and the published_at of the response
CreatedEntry(form, body) ==
    [self |-> body.url.self, title |-> form["title"],
     published_at |-> body.published_at]

\* created: the creates since the last PATCH or DELETE request
PostNewsletters ==
    \E form \in PostForms :
        LET out == Newsletters_post(table, form, nextUid, now)
        IN  /\ resp = Idle
            /\ nextUid <= MaxUid
            /\ NextId(table) <= MaxId
            /\ table' = out.table
            /\ resp' = Response("POST /newsletters", 0, form, out)
            /\ nextUid' = IF out.status = 201 THEN nextUid + 1 ELSE nextUid
            /\ created' = IF out.status = 201
                          THEN created \cup {CreatedEntry(form, out.body)}
                          ELSE created
            /\ UNCHANGED now
            /\ NoRace /\ NoSeed

GetNewsletterByID ==
    \E id \in Ids :
        LET out == NewsletterByID_get(table, id)
        IN  /\ resp = Idle
            /\ table' = out.table
            /\ resp' = Response("GET /newsletters/<id>", id, NoForm, out)
            /\ UNCHANGED <<now, nextUid, created>>
            /\ NoRace /\ NoSeed

PatchNewsletterByID ==
    \E id \in Ids, form \in PatchForms :
        LET out == NewsletterByID_patch(table, id, form)
        IN  /\ resp = Idle
            /\ table' = out.table
            /\ resp' = Response("PATCH /newsletters/<id>", id, form, out)
            /\ created' = {}
            /\ UNCHANGED <<now, nextUid>>
            /\ NoRace /\ NoSeed

DeleteNewsletterByID ==
    \E id \in Ids :
        LET out == NewsletterByID_delete(table, id)
        IN  /\ resp = Idle
            /\ table' = out.table
            /\ resp' = Response("DELETE /newsletters/<id>", id, NoForm, out)
            /\ created' = {}
            /\ UNCHANGED <<now, nextUid>>
            /\ NoRace /\ NoSeed

Next ==
    \/ Tick
    \/ Reply
    \/ GetIndex
    \/ GetNewsletters
    \/ PostNewsletters
    \/ GetNewsletterByID
    \/ PatchNewsletterByID
    \/ DeleteNewsletterByID

Spec == Init /\ [][Next]_vars

(* ------------- RaceSpec: two PATCH requests on the same id ----------- *)

Requests == {1, 2}

NoRow == <<>>

\* a table the API has reached: one row, or two
RaceRow1 == Newsletter(1, 1, "T1", "B1", 0)

RaceRow2 == Newsletter(2, 2, "T2", "B2", 0)

RaceTables == {{RaceRow1}, {RaceRow1, RaceRow2}}

\* a PATCH request in flight: pc is the statement its handler is at
PatchRequest(id, form) ==
    [id |-> id, form |-> form, pc |-> "lookup", loaded |-> NoRow,
     newsletter |-> NoRow, status |-> 0, body |-> <<>>]

RaceInit ==
    /\ table \in RaceTables
    /\ now = 0
    /\ nextUid = 3
    /\ resp = Idle
    /\ created = {}
    /\ \E id \in {r.id : r \in table} :
           reqs \in [Requests -> {PatchRequest(id, f) : f \in PatchForms}]
    /\ commits = <<>>
    /\ seed = SeedIdle
    /\ before = {}

RaceFrame == UNCHANGED <<now, nextUid, resp, created>> /\ NoSeed

Fail(r) == [r EXCEPT !.pc = "done", !.status = 500, !.body = ServerError]

\* newsletter = Newsletter.query.filter_by(id=id).first(); on None the
\* handler raises at its next statement
PatchLookup(i) ==
    /\ reqs[i].pc = "lookup"
    /\ LET q == filter_by(table, reqs[i].id)
       IN  reqs' = [reqs EXCEPT ![i] =
                       IF q = {} THEN Fail(@)
                       ELSE [@ EXCEPT !.pc = "assign", !.loaded = first(q),
                                      !.newsletter = first(q)]]
    /\ UNCHANGED <<table, commits>>
    /\ RaceFrame

\* the setattr loop
PatchAssign(i) ==
    /\ reqs[i].pc = "assign"
    /\ reqs' = [reqs EXCEPT ![i] =
                   [@ EXCEPT !.pc = "commit",
                             !.newsletter = SetAttrs(@, reqs[i].form)]]
    /\ UNCHANGED <<table, commits>>
    /\ RaceFrame

\* db.session.add(newsletter); db.session.commit()
PatchCommit(i) ==
    /\ reqs[i].pc = "commit"
    /\ LET c == Commit(table, reqs[i].loaded, reqs[i].newsletter, reqs[i].form)
       IN  /\ table' = c.table
           /\ reqs' = [reqs EXCEPT ![i] =
                          IF c.ok THEN [@ EXCEPT !.pc = "dump"] ELSE Fail(@)]
           /\ commits' = IF c.ok THEN Append(commits, i) ELSE commits
    /\ RaceFrame

\* make_response(newsletter_schema.dump(newsletter), 200)
PatchDump(i) ==
    /\ reqs[i].pc = "dump"
    /\ LET out == DumpCommitted(table, reqs[i].newsletter.id)
       IN  reqs' = [reqs EXCEPT ![i] =
                       [@ EXCEPT !.pc = "done", !.status = out.status,
                                 !.body = out.body]]
    /\ UNCHANGED <<table, commits>>
    /\ RaceFrame

RaceNext ==
    \E i \in Requests :
        \/ PatchLookup(i)
        \/ PatchAssign(i)
        \/ PatchCommit(i)
        \/ PatchDump(i)

RaceSpec == RaceInit /\ [][RaceNext]_vars

(* -------------------- SeedSpec: a run of seed.py --------------------- *)

\* for i in range(50)
SeedCount == 50

\* Faker() is seeded at random; its outputs are a function of the seed and
\* of how many values were drawn
FakerSeeds == {0, 1}

\* fake.text(max_nb_chars=20)
fake_text(rng, i) == IF (rng + i) % 2 = 0 THEN "T1" ELSE "T2"

\* fake.paragraph(nb_sentences=5)
fake_paragraph(rng, i) == IF (rng + i) % 2 = 0 THEN "B2" ELSE "B1"

\* the rows of the tables a run may start from; the run is followed from the
\* with block on (the script's own db.init_app(app) is taken to return)
PriorRows == {Newsletter(i, i, "T1", "B1", 0) : i \in 1..MaxPrior}

SeedInit ==
    /\ table \in SUBSET PriorRows
    /\ now \in 0..MaxTime
    /\ nextUid = MaxPrior + 1
    /\ resp = Idle
    /\ created = {}
    /\ reqs = <<>>
    /\ commits = <<>>
    /\ \E rng \in FakerSeeds :
           seed = [pc |-> "delete", rng |-> rng, newsletters |-> <<>>,
                   deleted |-> FALSE]
    /\ before = table

SeedFrame == UNCHANGED <<now, resp, created, before>> /\ NoRace

\* a variant of the script without its Newsletter.query.delete()
query_delete_Skipped(s) == [s EXCEPT !.pc = "loop"]

\* Newsletter.query.delete(): DELETE FROM newsletters in the session's
\* transaction; `deleted` is whether the transaction holds that DELETE
query_delete(s) == [s EXCEPT !.deleted = TRUE, !.pc = "loop"]

SeedDelete ==
    /\ seed.pc = "delete"
    /\ seed' = query_delete(seed)
    /\ UNCHANGED <<table, nextUid>>
    /\ SeedFrame

\* one pass of the loop: newsletters.append(Newsletter(title, body))
SeedAppend ==
    /\ seed.pc = "loop"
    /\ Len(seed.newsletters) < SeedCount
    /\ LET i == Len(seed.newsletters)
       IN  seed' = [seed EXCEPT !.newsletters =
                       Append(@, [title |-> fake_text(seed.rng, i),
                                  body |-> fake_paragraph(seed.rng, i)])]
    /\ UNCHANGED <<table, nextUid>>
    /\ SeedFrame

\* the rows the pending INSERTs make of `newsletters` on top of table t
Inserted(t, newsletters, uid, clock) ==
    {Newsletter(uid + k - 1, NextId(t) + k - 1, newsletters[k].title,
                newsletters[k].body, clock) : k \in 1..Len(newsletters)}

\* db.session.add_all(newsletters); db.session.commit(): the transaction's
\* DELETE and INSERTs take effect together
add_all_commit(t, s, uid, clock) ==
    LET kept == IF s.deleted THEN {} ELSE t
    IN  kept \cup Inserted(kept, s.newsletters, uid, clock)

SeedCommit ==
    /\ seed.pc = "loop"
    /\ Len(seed.newsletters) = SeedCount
    /\ table' = add_all_commit(table, seed, nextUid, now)
    /\ nextUid' = nextUid + Len(seed.newsletters)
    /\ seed' = [seed EXCEPT !.pc = "done"]
    /\ SeedFrame

SeedNext ==
    \/ SeedDelete
    \/ SeedAppend
    \/ SeedCommit

SeedSpec == SeedInit /\ [][SeedNext]_vars

(* ------------------------------ claims ------------------------------ *)

\* a step of Spec in which the handler of `op` runs
Step(op) == resp = Idle /\ resp'.op = op

GET_ALL == "GET /newsletters"

POST == "POST /newsletters"

GET_ID == "GET /newsletters/<id>"

PATCH == "PATCH /newsletters/<id>"

DELETE == "DELETE /newsletters/<id>"

\* a DELETE request for an id that has no row
DeleteAbsent == Step(DELETE) /\ filter_by(table, resp'.id) = {}

C2_PatchTitleOnly ==
    [][(Step(PATCH) /\ DOMAIN resp'.form = {"title"}
          /\ filter_by(table, resp'.id) # {}) =>
          LET r == first(filter_by(table, resp'.id))
          IN  /\ resp'.status = 200
              /\ table' = (table \ {r}) \cup {[r EXCEPT !.title = resp'.form["title"]]}]_vars

\* a title-only PATCH with X = "T2" was answered 200 and its row holds "T2"
\* beside its old body, next to a second row
C2_Witness ==
    /\ resp.op = PATCH
    /\ DOMAIN resp.form = {"title"}
    /\ resp.status = 200
    /\ resp.form["title"] = "T2"
    /\ \E r \in table : r.id = resp.id /\ r.title = "T2" /\ r.body = "B1"
    /\ Cardinality(table) = 2

\* C3: in every state reached by POST, PATCH, DELETE and GET requests no two
\* rows share an id, and a row keeps the id it was created with for as long
\* as it exists.
C3_IdUniqueAndStable ==
    [][/\ \A r1, r2 \in table' : r1.id = r2.id => r1 = r2
       /\ \A r1 \in table, r2 \in table' : r1.uid = r2.uid => r1.id = r2.id]_vars

\* C4: a DELETE of an existing id answers 200 and removes exactly that row;
\* a removed row never comes back; and what a GET returns is taken from the
\* table as it is: GET /newsletters/{id} answers 200 only with the dump of a
\* row that is in the table under that id, and GET /newsletters lists only
\* rows that are in the table.
C4_DeletedRowIsGone ==
    [][/\ (Step(DELETE) /\ filter_by(table, resp'.id) # {}) =>
             /\ resp'.status = 200
             /\ table' = table \ {first(filter_by(table, resp'.id))}
             /\ filter_by(table', resp'.id) = {}
       /\ \A r \in table' : r.uid < nextUid => \E q \in table : q.uid = r.uid
       /\ Step(GET_ID) =>
             /\ table' = table
             /\ resp'.status = 200 =>
                   \E r \in table : r.id = resp'.id
                                    /\ resp'.body = newsletter_schema_dump(r)
       /\ Step(GET_ALL) =>
             /\ table' = table
             /\ \A i \in 1..Len(resp'.body) :
                   \E r \in table : resp'.body[i] = newsletter_schema_dump(r)]_vars

\* a DELETE of an existing row was answered 200, the id has no row any more
\* and another row is still there
C4_Witness ==
    /\ resp.op = DELETE
    /\ resp.status = 200
    /\ filter_by(table, resp.id) = {}
    /\ table # {}

\* C5: a POST whose form lacks title or lacks body is answered with an
\* error status, not 201, and leaves the table unchanged.
C5_PostMissingField ==
    [][(Step(POST) /\ ~({"title", "body"} \subseteq DOMAIN resp'.form)) =>
          /\ resp'.status # 201
          /\ resp'.status >= 400
          /\ table' = table]_vars

\* a POST that named a body but no title was answered with an error while
\* the table holds a row
C5_Witness ==
    /\ resp.op = POST
    /\ "title" \notin DOMAIN resp.form
    /\ "body" \in DOMAIN resp.form
    /\ resp.status >= 400
    /\ table # {}

\* the run of the seed script has returned
SeedDone == seed.pc = "done"

\* C6: when a run of the seed script ends, the table holds exactly 50 rows,
\* none of which is a row that was in the table when the run started.
C6_SeedFifty ==
    SeedDone =>
        /\ Cardinality(table) = 50
        /\ \A r \in table : \A b \in before : r.uid # b.uid

\* a run that started from a table with rows has ended, and a new row has
\* the id of a row it replaced
C6_Witness ==
    /\ SeedDone
    /\ Cardinality(before) = MaxPrior
    /\ \E r \in table : \E b \in before : r.id = b.id

\* C7: a POST with title T and body B that is answered 201 adds exactly one
\* row, with title T, body B, the id the database assigns and the server's
\* clock as published_at, whatever id or published_at the form carries;
\* the response is the dump of that row, and the rows that were in the table
\* are unchanged.
C7_PostAddsOneRow ==
    [][(Step(POST) /\ resp'.status = 201) =>
          \E r \in table' :
              /\ r \notin table
              /\ table' = table \cup {r}
              /\ \A q \in table : q.id # r.id
              /\ r.title = resp'.form["title"]
              /\ r.body = resp'.form["body"]
              /\ r.id = NextId(table)
              /\ r.published_at = now
              /\ resp'.body = newsletter_schema_dump(r)]_vars

\* a POST that carried an id and a published_at of its own was answered 201
\* with a row under another id, next to an older row
C7_Witness ==
    /\ resp.op = POST
    /\ resp.status = 201
    /\ {"id", "published_at"} \subseteq DOMAIN resp.form
    /\ SelfUrl(ParseInt(resp.form["id"])) # resp.body.url.self
    /\ Cardinality(table) = 2

\* C8: a GET of the id of a row created since the last PATCH or DELETE
\* request is answered 200 with the title that was submitted and the
\* published_at that the create response carried.
C8_CreateThenRead ==
    resp.op = GET_ID =>
        \A c \in created :
            c.self = SelfUrl(resp.id) =>
                /\ resp.status = 200
                /\ resp.body.title = c.title
                /\ resp.body.published_at = c.published_at

\* the second of two created rows was read back
C8_Witness ==
    /\ resp.op = GET_ID
    /\ resp.status = 200
    /\ Cardinality(created) = 2
    /\ resp.id = 2
    /\ \E c \in created : c.self = SelfUrl(resp.id)

\* both PATCH requests have returned
RaceDone == \A i \in Requests : reqs[i].pc = "done"

\* one of the two requests names id; a request that does not names only
\* title and body (see PatchForms)
NamesId == \E i \in Requests : "id" \in DOMAIN reqs[i].form

\* the attributes both requests name
NamedByBoth == DOMAIN reqs[1].form \cap DOMAIN reqs[2].form

\* the row the two requests were sent for
Stored == first(filter_by(table, reqs[1].id))

\* C9 (as stated, for requests that name only title and body): two
\* interleaved PATCH requests on the same existing id both return 200,
\* neither is rejected, and every attribute both name holds the value of the
\* request that committed last.
C9_LastCommitWins ==
    (RaceDone /\ ~NamesId) =>
        /\ \A i \in Requests : reqs[i].status = 200
        /\ Len(commits) = 2
        /\ \A a \in NamedByBoth : Stored[a] = reqs[commits[2]].form[a]

\* C9 (amended): two interleaved PATCH requests on the same existing id that
\* name only title and body both return 200 and neither is rejected; an
\* attribute both name holds the value of the request that committed last
\* when that value differs from the one the request read at its lookup, and
\* otherwise (its commit does not write the attribute) the value of the
\* other request.
C9_LastChangeWins ==
    (RaceDone /\ ~NamesId) =>
        /\ \A i \in Requests : reqs[i].status = 200
        /\ Len(commits) = 2
        /\ \A a \in NamedByBoth :
              LET last == reqs[commits[2]]
                  other == reqs[commits[1]]
              IN  Stored[a] = IF last.form[a] # last.loaded[a]
                              THEN last.form[a] ELSE other.form[a]

\* both requests returned 200 and an attribute both named holds the value
\* of the request that committed first
C9_Witness ==
    /\ RaceDone
    /\ ~NamesId
    /\ \A i \in Requests : reqs[i].status = 200
    /\ Len(commits) = 2
    /\ \E a \in NamedByBoth : Stored[a] # reqs[commits[2]].form[a]

\* C10: GET /newsletters is answered 200 with a list that holds the dump of
\* every row of the table and nothing else, one entry per row, and leaves
\* the table unchanged.
C10_ListIsTheTable ==
    [][Step(GET_ALL) =>
          /\ resp'.status = 200
          /\ table' = table
          /\ Len(resp'.body) = Cardinality(table)
          /\ \A r \in table :
                \E i \in 1..Len(resp'.body) : resp'.body[i] = newsletter_schema_dump(r)
          /\ \A i \in 1..Len(resp'.body) :
                \E r \in table : resp'.body[i] = newsletter_schema_dump(r)]_vars

\* the list was returned for a table of two rows, after a delete and a
\* second create
C10_Witness ==
    /\ resp.op = GET_ALL
    /\ resp.status = 200
    /\ Len(resp.body) = 2
    /\ nextUid > 3

====
